---- MODULE Spec2Model ----
(***************************************************************************)
(* Model of the two game engines of the repository:                        *)
(*   - src/minesweeper/minesweeper.py : Minesweeper, Sentence,             *)
(*     MinesweeperAI (the knowledge-base agent);                           *)
(*   - src/tictactoe/tictactoe.py     : the minimax Tic-Tac-Toe player.    *)
(* Cells are pairs <<i, j>> (row, column), as the tuples (i, j) of the     *)
(* source.  A Sentence is a record [cells, count].                         *)
(***************************************************************************)
EXTENDS Integers, Sequences, FiniteSets, TLC

\* ------------------------------------------------------------------ bounds
Height == 2
Width == 3
MaxMines == 2
MaxKnowledge == 6
MaxStaged == 6
MaxSearchEmpty == 5
MaxMoves == 3
MaxApiCalls == 2
MaxCount == 2
MaxSentenceCells == 2

VARIABLES
    ms_board,       \* Minesweeper.board / Minesweeper.mines: the cells holding a mine
    moves_made,     \* MinesweeperAI.moves_made
    safes,          \* MinesweeperAI.safes
    mines,          \* MinesweeperAI.mines
    knowledge,      \* MinesweeperAI.knowledge: sequence of sentences
    new_knowledge,  \* add_knowledge's local worklist of staged sentences
    cells,          \* add_knowledge's local variable `cells`
    pc,             \* "idle": no call in progress; "loop": inside add_knowledge's while loop
    board,          \* the Tic-Tac-Toe board the driver holds: board[i][j], i, j in 0..2
    last            \* the last operation that acted, with its argument and result

vars == <<ms_board, moves_made, safes, mines, knowledge, new_knowledge, cells, pc, board, last>>

\* Python's None where a mark of the Tic-Tac-Toe board is expected (EMPTY)
None == "None"
\* Python's None where a cell or an action (a tuple) is expected
NoCell == <<>>

Cells == (0 .. Height - 1) \X (0 .. Width - 1)

max(a, b) == IF a >= b THEN a ELSE b
min(a, b) == IF a <= b THEN a ELSE b

\* ------------------------------------------------------- class Minesweeper
is_mine(cell) == cell \in ms_board

nearby_mines(cell) ==
    Cardinality({c \in (cell[1] - 1 .. cell[1] + 1) \X (cell[2] - 1 .. cell[2] + 1) :
                    /\ c # cell
                    /\ 0 <= c[1] /\ c[1] < Height /\ 0 <= c[2] /\ c[2] < Width
                    /\ c \in ms_board})

\* ---------------------------------------------------------- class Sentence
Sentence(cs, count) == [cells |-> cs, count |-> count]

\* known_mines with >= in place of ==.
known_mines_ge(s) == IF s.count >= Cardinality(s.cells) THEN s.cells ELSE {}

known_mines(s) == IF s.count = Cardinality(s.cells) THEN s.cells ELSE {}

known_safes(s) == IF s.count = 0 THEN s.cells ELSE {}

\* Sentence.mark_mine without its membership test.
Sentence_mark_mine_always(s, cell) ==
    [cells |-> s.cells \ {cell}, count |-> s.count - 1]

Sentence_mark_mine(s, cell) ==
    IF cell \notin s.cells THEN s
    ELSE [cells |-> s.cells \ {cell}, count |-> s.count - 1]

Sentence_mark_safe(s, cell) ==
    IF cell \notin s.cells THEN s
    ELSE [cells |-> s.cells \ {cell}, count |-> s.count]

\* ----------------------------------------------------- class MinesweeperAI
\* The agent's fields as one record, so that the methods compose.
Agent == [moves_made |-> moves_made, safes |-> safes, mines |-> mines,
          knowledge |-> knowledge]

AgentInit == [moves_made |-> {}, safes |-> {}, mines |-> {}, knowledge |-> <<>>]

mark_mine(st, cell) ==
    [st EXCEPT !.mines = st.mines \cup {cell},
               !.knowledge = [i \in DOMAIN st.knowledge |->
                                 Sentence_mark_mine(st.knowledge[i], cell)]]

mark_safe(st, cell) ==
    [st EXCEPT !.safes = st.safes \cup {cell},
               !.knowledge = [i \in DOMAIN st.knowledge |->
                                 Sentence_mark_safe(st.knowledge[i], cell)]]

\* The two loops below, stopped after their first cell.
mark_mine_first(st, cs) ==
    IF cs = {} THEN st ELSE mark_mine(st, CHOOSE x \in cs : TRUE)

mark_safe_first(st, cs) ==
    IF cs = {} THEN st ELSE mark_safe(st, CHOOSE x \in cs : TRUE)

\* `for cell in cells: self.mark_mine(cell)`
RECURSIVE mark_mine_each(_, _)
mark_mine_each(st, cs) ==
    IF cs = {} THEN st
    ELSE LET c == CHOOSE x \in cs : TRUE
         IN  mark_mine_each(mark_mine(st, c), cs \ {c})

\* `for cell in cells: self.mark_safe(cell)`
RECURSIVE mark_safe_each(_, _)
mark_safe_each(st, cs) ==
    IF cs = {} THEN st
    ELSE LET c == CHOOSE x \in cs : TRUE
         IN  mark_safe_each(mark_safe(st, c), cs \ {c})

get_surrounding_cells(st, cell) ==
    LET min_i == max(0, cell[1] - 1)
        max_i == min(Height - 1, cell[1] + 1)
        min_j == max(0, cell[2] - 1)
        max_j == min(Width - 1, cell[2] + 1)
    IN  {c \in (min_i .. max_i) \X (min_j .. max_j) :
            ~ (c \in st.moves_made \/ c \in st.safes \/ c \in st.mines)}

\* list.pop(i), 1-based
Pop(seq, i) == SubSeq(seq, 1, i - 1) \o SubSeq(seq, i + 1, Len(seq))

RECURSIVE update_from(_, _)
update_from(st, i) ==
    IF i > Len(st.knowledge) THEN st
    ELSE LET sentence == st.knowledge[i]
             popped == [st EXCEPT !.knowledge = Pop(st.knowledge, i)]
         IN  IF sentence.count = Cardinality(sentence.cells)
                THEN update_from(mark_mine_each(popped, sentence.cells), i)
             ELSE IF sentence.count = 0
                THEN update_from(mark_safe_each(popped, sentence.cells), i)
             ELSE update_from(st, i + 1)

update_with_knowledge(st) == update_from(st, 1)

\* add_knowledge up to and including the call of update_with_knowledge
\* (lines 226-243): the agent, the staged sentences and the local `cells`.
add_knowledge_head(st, cell, count) ==
    LET st1 == mark_safe([st EXCEPT !.moves_made = st.moves_made \cup {cell}], cell)
        cs  == get_surrounding_cells(st1, cell)
        st2 == IF count = 0 THEN mark_safe_each(st1, cs)
               ELSE IF count = Cardinality(cs) THEN mark_mine_each(st1, cs)
               ELSE st1
        nk  == IF count = 0 \/ count = Cardinality(cs) THEN <<>>
               ELSE <<Sentence(cs, count)>>
    IN  [agent |-> update_with_knowledge(st2), new_knowledge |-> nk, cells |-> cs]

\* `for sentence2 in self.knowledge:` of lines 255-263, from index i on:
\* the staged sentences and the local `cells` after the loop.
RECURSIVE resolve_from(_, _, _, _, _)
resolve_from(sentence1, kb, i, nk, cs) ==
    IF i > Len(kb) THEN [new_knowledge |-> nk, cells |-> cs]
    ELSE LET sentence2 == kb[i]
         IN  IF sentence1.cells \subseteq sentence2.cells
                THEN LET d == sentence2.cells \ sentence1.cells
                     IN  resolve_from(sentence1, kb, i + 1,
                             Append(nk, Sentence(d, sentence2.count - sentence1.count)), d)
             ELSE IF sentence2.cells \subseteq sentence1.cells
                THEN LET d == sentence1.cells \ sentence2.cells
                     IN  resolve_from(sentence1, kb, i + 1,
                             Append(nk, Sentence(d, sentence1.count - sentence2.count)), d)
             ELSE resolve_from(sentence1, kb, i + 1, nk, cs)

\* one iteration of `while new_knowledge:` (lines 245-264)
add_knowledge_iter(st, nk, cs) ==
    LET sentence1 == nk[Len(nk)]
        rest == SubSeq(nk, 1, Len(nk) - 1)
    IN  IF Cardinality(sentence1.cells) = sentence1.count
           THEN [agent |-> mark_mine_each(st, cs), new_knowledge |-> rest, cells |-> cs]
        ELSE IF sentence1.count = 0
           THEN [agent |-> mark_safe_each(st, cs), new_knowledge |-> rest, cells |-> cs]
        ELSE LET r == resolve_from(sentence1, st.knowledge, 1, rest, cs)
             IN  [agent |-> [st EXCEPT !.knowledge = Append(st.knowledge, sentence1)],
                  new_knowledge |-> r.new_knowledge, cells |-> r.cells]

\* make_safe_move without the test `if i not in self.moves_made`
make_safe_move_any(st) ==
    IF st.safes # {}
       THEN st.safes
       ELSE {NoCell}

\* make_safe_move: the first cell of self.safes, in the set's iteration
\* order, that is not in moves_made; None when the loop ends without one.
make_safe_move(st) ==
    IF \E i \in st.safes : i \notin st.moves_made
       THEN {i \in st.safes : i \notin st.moves_made}
       ELSE {NoCell}

\* make_random_move: `return safe_moves.append(i)` returns the value of
\* list.append, None, at the first unplayed safe cell; otherwise safe_moves
\* is still empty and the conditional expression yields None.
make_random_move(st) ==
    IF \E i \in st.safes : i \notin st.moves_made
       THEN {NoCell}
       ELSE {NoCell}

\* --------------------------------------------------------------- tictactoe
X == "X"
O == "O"
EMPTY == None

NegInf == -2
PosInf == 2

initial_state == [i \in 0 .. 2 |-> [j \in 0 .. 2 |-> EMPTY]]

Squares == (0 .. 2) \X (0 .. 2)

\* player with `count_x >= count_o` as the test for O's turn
player_ge(b) ==
    LET count_x == Cardinality({a \in Squares : b[a[1]][a[2]] = X})
        count_o == Cardinality({a \in Squares : b[a[1]][a[2]] = O})
    IN  IF count_x >= count_o THEN O ELSE X

player(b) ==
    LET count_x == Cardinality({a \in Squares : b[a[1]][a[2]] = X})
        count_o == Cardinality({a \in Squares : b[a[1]][a[2]] = O})
    IN  IF count_x > count_o THEN O ELSE X

actions(b) == {a \in Squares : b[a[1]][a[2]] = EMPTY}

\* result that writes the board it is given instead of a deep copy
result_in_place(b, action) ==
    IF b[action[1]][action[2]] # EMPTY THEN [raised |-> TRUE, board |-> b, input |-> b]
    ELSE LET written == [b EXCEPT ![action[1]][action[2]] = player(b)]
         IN  [raised |-> FALSE, board |-> written, input |-> written]

\* result: whether it raised, the board it returned (the input board when it
\* raised), and the caller's board after the call: the input is deep-copied
\* and only the copy is written.
result(b, action) ==
    IF b[action[1]][action[2]] # EMPTY THEN [raised |-> TRUE, board |-> b, input |-> b]
    ELSE [raised |-> FALSE, board |-> [b EXCEPT ![action[1]][action[2]] = player(b)],
          input |-> b]

\* `for i in range(3):` of winner, from iteration i on; board[-1] is board[2]
RECURSIVE winner_from(_, _)
winner_from(b, i) ==
    IF i > 2 THEN None
    ELSE IF i = 0 /\ b[i][i] = b[i + 1][i + 1] /\ b[i + 1][i + 1] = b[2][2] THEN b[i][i]
    ELSE IF i = 0 /\ b[i][2] = b[i + 1][i + 1] /\ b[i + 1][i + 1] = b[2][i] THEN b[i][2]
    ELSE IF b[i][0] = b[i][1] /\ b[i][1] = b[i][2] THEN b[i][0]
    ELSE IF b[0][i] = b[1][i] /\ b[1][i] = b[2][i] THEN b[0][i]
    ELSE winner_from(b, i + 1)

winner(b) == winner_from(b, 0)

terminal(b) ==
    IF winner(b) # None THEN TRUE
    ELSE IF \E a \in Squares : b[a[1]][a[2]] = EMPTY THEN FALSE
    ELSE TRUE

utility(b) ==
    LET winner_player == winner(b)
    IN  IF winner_player = X THEN 1
        ELSE IF winner_player = O THEN -1
        ELSE 0

\* v = fold of max / min over a set of values, from the start value v0
MaxOver(S, v0) == CHOOSE v \in S \cup {v0} : \A w \in S \cup {v0} : w <= v
MinOver(S, v0) == CHOOSE v \in S \cup {v0} : \A w \in S \cup {v0} : v <= w

RECURSIVE max_value(_), min_value(_)
max_value(b) ==
    IF terminal(b) THEN utility(b)
    ELSE MaxOver({min_value(result(b, action).board) : action \in actions(b)}, NegInf)

min_value(b) ==
    IF terminal(b) THEN utility(b)
    ELSE MinOver({max_value(result(b, action).board) : action \in actions(b)}, PosInf)

\* minimax that returns an available action without comparing values
minimax_any(b) ==
    IF terminal(b) THEN {NoCell}
    ELSE actions(b)

\* minimax: the actions the loops can end with.  optimal_action is replaced
\* only by a strictly better action, so it ends as the first action of
\* actions(board), in the set's iteration order, that reaches the best value.
\* The actions of a set of <<action, value>> pairs whose value is v.
ActionsWith(scored, v) == {p[1] : p \in {q \in scored : q[2] = v}}

minimax(b) ==
    IF terminal(b) THEN {NoCell}
    ELSE IF player(b) = X
        THEN LET scored == {<<action, min_value(result(b, action).board)>> :
                               action \in actions(b)}
             IN  ActionsWith(scored, MaxOver({p[2] : p \in scored}, NegInf))
        ELSE LET scored == {<<action, max_value(result(b, action).board)>> :
                               action \in actions(b)}
             IN  ActionsWith(scored, MinOver({p[2] : p \in scored}, PosInf))

\* ------------------------------------------------------------ state machine
Within(r) ==
    /\ Len(r.agent.knowledge) <= MaxKnowledge
    /\ Len(r.new_knowledge) <= MaxStaged

Install(r) ==
    /\ moves_made' = r.agent.moves_made
    /\ safes' = r.agent.safes
    /\ mines' = r.agent.mines
    /\ knowledge' = r.agent.knowledge
    /\ new_knowledge' = r.new_knowledge
    /\ pc' = IF r.new_knowledge = <<>> THEN "idle" ELSE "loop"
    /\ cells' = IF r.new_knowledge = <<>> THEN {} ELSE r.cells

Init ==
    /\ ms_board \in {b \in SUBSET Cells : Cardinality(b) <= MaxMines}
    /\ moves_made = {}
    /\ safes = {}
    /\ mines = {}
    /\ knowledge = <<>>
    /\ new_knowledge = <<>>
    /\ cells = {}
    /\ pc = "idle"
    /\ board = initial_state
    /\ last = [op |-> "init", arg |-> NoCell, ret |-> NoCell, raised |-> FALSE]

\* The driver reveals a cell that holds no mine and was not revealed before,
\* and reports the board's count for it; it reveals at most MaxMoves cells.
AddKnowledge ==
    /\ pc = "idle"
    /\ \E cell \in Cells :
          /\ ~ is_mine(cell)
          /\ cell \notin moves_made
          /\ Cardinality(moves_made) < MaxMoves
          /\ \E r \in {add_knowledge_head(Agent, cell, nearby_mines(cell))} :
                 /\ Within(r)
                 /\ Install(r)
                 /\ last' = [op |-> "add_knowledge", arg |-> NoCell, ret |-> NoCell, raised |-> FALSE]
    /\ UNCHANGED <<ms_board, board>>

AddKnowledgeLoop ==
    /\ pc = "loop"
    /\ \E r \in {add_knowledge_iter(Agent, new_knowledge, cells)} :
           /\ Within(r)
           /\ Install(r)
           /\ last' = [op |-> "add_knowledge_loop", arg |-> NoCell, ret |-> NoCell, raised |-> FALSE]
    /\ UNCHANGED <<ms_board, board>>

MakeSafeMove ==
    /\ pc = "idle"
    /\ \E m \in make_safe_move(Agent) :
          last' = [op |-> "make_safe_move", arg |-> NoCell, ret |-> m, raised |-> FALSE]
    /\ UNCHANGED <<ms_board, moves_made, safes, mines, knowledge, new_knowledge, cells, pc, board>>

MakeRandomMove ==
    /\ pc = "idle"
    /\ \E m \in make_random_move(Agent) :
          last' = [op |-> "make_random_move", arg |-> NoCell, ret |-> m, raised |-> FALSE]
    /\ UNCHANGED <<ms_board, moves_made, safes, mines, knowledge, new_knowledge, cells, pc, board>>

Next ==
    \/ AddKnowledge
    \/ AddKnowledgeLoop
    \/ MakeSafeMove
    \/ MakeRandomMove

Spec == Init /\ [][Next]_vars

\* ------------------------------------------------- tictactoe state machine
TInit ==
    /\ ms_board = {}
    /\ moves_made = {}
    /\ safes = {}
    /\ mines = {}
    /\ knowledge = <<>>
    /\ new_knowledge = <<>>
    /\ cells = {}
    /\ pc = "idle"
    /\ board = initial_state
    /\ last = [op |-> "init", arg |-> NoCell, ret |-> NoCell, raised |-> FALSE]

MinesweeperVars == <<ms_board, moves_made, safes, mines, knowledge, new_knowledge, cells, pc>>

\* The driver plays until terminal(board) is true.  A move on an occupied
\* square raises and leaves the driver's board as it was.
Result ==
    /\ ~ terminal(board)
    /\ \E action \in Squares :
          LET r == result(board, action)
          IN  /\ board' = r.board
              /\ last' = [op |-> "result", arg |-> action, ret |-> NoCell,
                          raised |-> r.raised]
    /\ UNCHANGED MinesweeperVars

Minimax ==
    /\ Cardinality(actions(board)) <= MaxSearchEmpty
    /\ \E m \in minimax(board) :
          last' = [op |-> "minimax", arg |-> NoCell, ret |-> m, raised |-> FALSE]
    /\ UNCHANGED <<MinesweeperVars, board>>

TNext ==
    \/ Result
    \/ Minimax

TSpec == TInit /\ [][TNext]_vars

\* ------------------------------------------------------- calls of result
\* A caller holds a board and calls result on it with any action, on any
\* board, terminal or not: `board` is the caller's board after the call and
\* last.ret the board returned, None when the call raised.
ResultCall ==
    /\ \E action \in Squares :
          \E r \in {result(board, action)} :
              /\ board' = r.input
              /\ last' = [op |-> "result", arg |-> action,
                          ret |-> IF r.raised THEN NoCell ELSE r.board,
                          raised |-> r.raised]
    /\ UNCHANGED MinesweeperVars

\* The caller goes on with the board that result returned.
Adopt ==
    /\ last.op = "result"
    /\ ~ last.raised
    /\ board' = last.ret
    /\ last' = [op |-> "adopt", arg |-> last.arg, ret |-> NoCell, raised |-> FALSE]
    /\ UNCHANGED MinesweeperVars

RNext ==
    \/ ResultCall
    \/ Adopt

RSpec == TInit /\ [][RNext]_vars

\* ------------------------------------------- calls of the agent's methods
\* A caller of the agent's public methods, on a freshly constructed agent:
\* add_knowledge with a cell not yet played and any count up to MaxCount,
\* mark_mine and mark_safe with any cell, while fewer than MaxApiCalls cells
\* are known as safe or as a mine; a mark may always be repeated at once.
ApiInit == TInit

ApiAddKnowledge ==
    /\ pc = "idle"
    /\ \E cell \in Cells \ moves_made, count \in 0 .. MaxCount :
          /\ Cardinality(mines \cup safes) < MaxApiCalls
          /\ \E r \in {add_knowledge_head(Agent, cell, count)} :
                 /\ Within(r)
                 /\ Install(r)
                 /\ last' = [op |-> "add_knowledge", arg |-> <<cell, count>>,
                             ret |-> NoCell, raised |-> FALSE]
    /\ UNCHANGED <<ms_board, board>>

InstallAgent(st) ==
    /\ moves_made' = st.moves_made
    /\ safes' = st.safes
    /\ mines' = st.mines
    /\ knowledge' = st.knowledge
    /\ UNCHANGED <<ms_board, new_knowledge, cells, pc, board>>

MarkMine ==
    /\ pc = "idle"
    /\ \E cell \in Cells :
          /\ \/ last.op = "mark_mine" /\ last.arg = cell
             \/ Cardinality(mines \cup safes) < MaxApiCalls
          /\ InstallAgent(mark_mine(Agent, cell))
          /\ last' = [op |-> "mark_mine", arg |-> cell, ret |-> NoCell, raised |-> FALSE]

MarkSafe ==
    /\ pc = "idle"
    /\ \E cell \in Cells :
          /\ \/ last.op = "mark_safe" /\ last.arg = cell
             \/ Cardinality(mines \cup safes) < MaxApiCalls
          /\ InstallAgent(mark_safe(Agent, cell))
          /\ last' = [op |-> "mark_safe", arg |-> cell, ret |-> NoCell, raised |-> FALSE]

ApiNext ==
    \/ ApiAddKnowledge
    \/ AddKnowledgeLoop
    \/ MarkMine
    \/ MarkSafe

ApiSpec == ApiInit /\ [][ApiNext]_vars

\* The same caller, who may also ask for the cells around any cell.
GetSurroundingCells ==
    /\ pc = "idle"
    /\ \E cell \in Cells :
          last' = [op |-> "get_surrounding_cells", arg |-> cell,
                   ret |-> get_surrounding_cells(Agent, cell), raised |-> FALSE]
    /\ UNCHANGED <<ms_board, moves_made, safes, mines, knowledge, new_knowledge, cells,
                   pc, board>>

SurroundNext ==
    \/ ApiNext
    \/ GetSurroundingCells

SurroundSpec == ApiInit /\ [][SurroundNext]_vars

\* ------------------------------------------------ queries of one Sentence
\* A Sentence built by Sentence(cells, count) from at most MaxSentenceCells
\* cells and a count from -1 (the loop's subtraction can go below zero) to
\* MaxCount, held as the only element of `knowledge`, and asked for its known
\* mines and its known safes.
SentenceInit ==
    /\ ms_board = {}
    /\ moves_made = {}
    /\ safes = {}
    /\ mines = {}
    /\ \E cs \in SUBSET Cells, count \in (0 - 1) .. MaxCount :
          /\ Cardinality(cs) <= MaxSentenceCells
          /\ knowledge = <<Sentence(cs, count)>>
    /\ new_knowledge = <<>>
    /\ cells = {}
    /\ pc = "idle"
    /\ board = initial_state
    /\ last = [op |-> "init", arg |-> NoCell, ret |-> NoCell, raised |-> FALSE]

KnownMines ==
    /\ last' = [op |-> "known_mines", arg |-> NoCell,
                ret |-> known_mines(knowledge[1]), raised |-> FALSE]
    /\ UNCHANGED <<ms_board, moves_made, safes, mines, knowledge, new_knowledge, cells,
                   pc, board>>

KnownSafes ==
    /\ last' = [op |-> "known_safes", arg |-> NoCell,
                ret |-> known_safes(knowledge[1]), raised |-> FALSE]
    /\ UNCHANGED <<ms_board, moves_made, safes, mines, knowledge, new_knowledge, cells,
                   pc, board>>

SentenceNext ==
    \/ KnownMines
    \/ KnownSafes

SentenceSpec == SentenceInit /\ [][SentenceNext]_vars

\* ------------------------------------------------------ minimax self-play
\* The driver's loop with both sides played by minimax: while the board is
\* not terminal, board = result(board, minimax(board)).
SelfPlay ==
    /\ ~ terminal(board)
    /\ \E m \in minimax(board) :
          /\ board' = result(board, m).board
          /\ last' = [op |-> "self_play", arg |-> m, ret |-> NoCell,
                      raised |-> result(board, m).raised]
    /\ UNCHANGED MinesweeperVars

PlayNext == SelfPlay

PlaySpec == TInit /\ [][PlayNext]_vars

\* ------------------------------------------------------ fair specification
\* A call of add_knowledge that has entered its while loop keeps running:
\* the loop's next iteration is taken whenever there is one.
FairSpec == Init /\ [][Next]_vars /\ WF_vars(AddKnowledgeLoop)

\* ------------------------------------------------------------------ claims
Returned == pc = "idle"

AllSentences ==
    {knowledge[i] : i \in DOMAIN knowledge}
        \cup {new_knowledge[i] : i \in DOMAIN new_knowledge}

Trivial(s) == s.count = 0 \/ s.count = Cardinality(s.cells)

\* C1: after any sequence of calls that have returned, agent.safes and
\* agent.mines are disjoint.
C1_SafesMinesDisjoint == Returned => safes \cap mines = {}

\* C2: whenever a call has returned, no cell of agent.mines or agent.safes
\* appears in the cell-set of a sentence of agent.knowledge.
C2_NoMarkedCellInKnowledge ==
    Returned => \A i \in DOMAIN knowledge :
                    knowledge[i].cells \cap (safes \cup mines) = {}

\* The sentences one iteration of the while loop stages, in order, when it
\* resolves the non-trivial sentence s against the knowledge base kb.
Derived(s, kb) == resolve_from(s, kb, 1, <<>>, {}).new_knowledge

NonTrivial(s) == ~ Trivial(s)

\* The last non-trivial sentence of a list: the next one the loop resolves,
\* as it pops from the end and a trivial sentence stages nothing.
LastNonTrivial(seq) ==
    LET nt == SelectSeq(seq, NonTrivial) IN nt[Len(nt)]

\* One step of closing a family G of sentences under "the loop resolves it
\* next": the last non-trivial sentence each member stages against kb, and
\* the non-trivial sentence it stages against another member once stored.
Grow(G, kb) ==
    G \cup {LastNonTrivial(Derived(x, kb)) :
                x \in {z \in G : SelectSeq(Derived(z, kb), NonTrivial) # <<>>}}
      \cup {d[1] : d \in {e \in {Derived(x, <<g>>) : x \in G, g \in G} :
                              e # <<>> /\ NonTrivial(e[1])}}

Family(x, kb) == Grow(Grow(Grow({x}, kb), kb), kb)

\* Every member of G, resolved against kb or against kb extended by members
\* of G, stages a non-trivial sentence, the last of them a member of G, and
\* leaves `cells` empty whenever the sentence on top of the worklist is a
\* trivial one.
ClosedFamily(G, kb) ==
    \A x \in G :
        LET d == Derived(x, kb)
        IN  /\ SelectSeq(d, NonTrivial) # <<>>
            /\ LastNonTrivial(d) \in G
            /\ Trivial(d[Len(d)]) => d[Len(d)].cells = {}
            /\ \A g \in G :
                   LET c == Derived(x, <<g>>)
                   IN  c # <<>> =>
                           IF Trivial(c[1]) THEN c[1].cells = {} ELSE c[1] \in G

\* The running call is in its while loop, the next sentence the loop will
\* resolve belongs to a closed family, and the trivial sentences above it are
\* popped with `cells` empty, so that they mark nothing.
SelfSustaining ==
    /\ pc = "loop"
    /\ SelectSeq(new_knowledge, NonTrivial) # <<>>
    /\ Trivial(new_knowledge[Len(new_knowledge)]) => cells = {}
    /\ \E G \in {Family(LastNonTrivial(new_knowledge), knowledge)} :
           ClosedFamily(G, knowledge)

\* Once the loop is self-sustaining it stays so after every iteration: a
\* trivial sentence on top is popped and marks the empty `cells`, so the
\* knowledge base is untouched; a member of the family on top stages its
\* differences, the last non-trivial one again a member, and is appended to
\* the knowledge base, which keeps the family closed.  With
\* SelfSustaining => pc = "loop", such a call never returns.
SelfSustainingIsStable == [][SelfSustaining => SelfSustaining']_vars

\* With the bounds above, MaxKnowledge and MaxStaged stop only calls whose
\* loop is self-sustaining: no call that would return is cut short.
BoundsStopOnlySelfSustaining ==
    (pc = "loop" /\ ~ ENABLED AddKnowledgeLoop) => SelfSustaining

\* Termination as a temporal property of FairSpec: a call that is in its
\* while loop eventually returns.
AddKnowledgeReturns == (pc = "loop") ~> (pc = "idle")

\* C3: every call of add_knowledge for a cell without a mine, with the
\* board's count, terminates: the worklist becomes empty and the knowledge
\* base stops growing.  A call whose loop is self-sustaining never returns
\* (SelfSustainingIsStable), so termination of every call says that no call
\* reaches such a loop state.
C3_AddKnowledgeTerminates == ~ SelfSustaining

\* C4: driven by add_knowledge with the board's counts for cells without a
\* mine, every cell of agent.mines is a mine of the board and no cell of
\* agent.safes is one, at every point.
C4_MarksAreSound == mines \subseteq ms_board /\ safes \cap ms_board = {}

\* C5: under correct usage every sentence staged or stored satisfies
\* 0 <= count <= |cells|.
C5_CountWithinCells ==
    \A s \in AllSentences : 0 <= s.count /\ s.count <= Cardinality(s.cells)

\* C6: whenever add_knowledge has returned, agent.knowledge holds no trivial
\* sentence (count = 0 or count = |cells|), the empty sentence included.
C6_KnowledgeNonTrivial ==
    Returned => \A i \in DOMAIN knowledge : ~ Trivial(knowledge[i])

\* C7: make_random_move returns a cell of the grid that is in neither
\* moves_made nor mines, and None only if there is no such cell.
C7_RandomMoveIsFreeCell ==
    last.op = "make_random_move" =>
        LET free == Cells \ (moves_made \cup mines)
        IN  IF free = {} THEN last.ret = NoCell ELSE last.ret \in free

\* C8: make_safe_move returns a cell of safes that is not in moves_made
\* whenever there is one, None exactly when every safe cell has been played,
\* and it leaves moves_made, safes, mines and knowledge unchanged.
C8_SafeMoveIsUnplayedSafe ==
    /\ [](last.op = "make_safe_move" =>
            IF safes \ moves_made = {} THEN last.ret = NoCell
            ELSE last.ret \in safes \ moves_made)
    /\ [][last'.op = "make_safe_move" /\ last' # last
            => UNCHANGED <<moves_made, safes, mines, knowledge>>]_vars

\* C8 witness: make_safe_move has returned one of several unplayed safe cells
\* while another safe cell has been played already.
C8_Witness ==
    /\ last.op = "make_safe_move"
    /\ last.ret \in safes \ moves_made
    /\ Cardinality(safes \ moves_made) >= 2
    /\ safes \cap moves_made # {}

\* The eight lines of the board.
Lines ==
    {{<<i, j>> : j \in 0 .. 2} : i \in 0 .. 2}
        \cup {{<<i, j>> : i \in 0 .. 2} : j \in 0 .. 2}
        \cup {{<<0, 0>>, <<1, 1>>, <<2, 2>>}, {<<0, 2>>, <<1, 1>>, <<2, 0>>}}

HasLine(b, m) == \E l \in Lines : \A a \in l : b[a[1]][a[2]] = m

\* C9: on every board reached by play, winner(board) is the mark M exactly
\* when some row, column or diagonal holds three marks M, and None when no
\* line is complete.
C9_WinnerIffLine ==
    /\ \A m \in {X, O} : winner(board) = m <=> HasLine(board, m)
    /\ winner(board) = None <=> ~ (HasLine(board, X) \/ HasLine(board, O))

\* The game under the three-in-a-line rule: over when a line is complete or
\* no square is empty; its value is the outcome of optimal play by both sides.
LineOver(b) == HasLine(b, X) \/ HasLine(b, O) \/ actions(b) = {}

LineUtility(b) == IF HasLine(b, X) THEN 1 ELSE IF HasLine(b, O) THEN -1 ELSE 0

RECURSIVE LineValue(_)
LineValue(b) ==
    IF LineOver(b) THEN LineUtility(b)
    ELSE LET vals == {LineValue(result(b, a).board) : a \in actions(b)}
         IN  IF player(b) = X THEN MaxOver(vals, NegInf) ELSE MinOver(vals, PosInf)

\* C10: minimax(board) is None when the board has a complete line or no empty
\* square; otherwise it is an available action whose value under optimal
\* play is the best one for the player to move.
C10_MinimaxIsOptimal ==
    last.op = "minimax" =>
        IF LineOver(board) THEN last.ret = NoCell
        ELSE /\ last.ret \in actions(board)
             /\ LineValue(result(board, last.ret).board) = LineValue(board)

\* The number of marks on a board.
Marks(b) == Cardinality({a \in Squares : b[a[1]][a[2]] # EMPTY})

\* C11: from initial_state(), with every move the one minimax returns,
\* whichever of the equally valued actions that is, the game reaches a
\* terminal board after at most 9 moves, and the utility of that board is 0.
\* The loop cannot stop before a terminal board (on every other board
\* minimax returns an empty square), every move adds one mark, and a board
\* holds at most 9 marks: so the loop ends, within 9 moves, on a terminal
\* board.
C11_SelfPlayIsADraw ==
    /\ [](~ terminal(board) =>
            \E ms \in {minimax(board)} : ms # {} /\ ms \subseteq actions(board))
    /\ [](Marks(board) <= 9)
    /\ [][~ last'.raised /\ Marks(board') = Marks(board) + 1]_vars
    /\ [](terminal(board) => utility(board) = 0)

\* C11 witness: self-play has ended on a full board after nine moves, the
\* last of them X's.
C11_Witness ==
    /\ last.op = "self_play"
    /\ terminal(board)
    /\ Marks(board) = 9
    /\ board[last.arg[1]][last.arg[2]] = X

\* C12: for every board and action, result(board, action) signals an error
\* if the target square is occupied; otherwise it returns a board equal to
\* the input except that the target square holds player(board); either way
\* the input board is unchanged by the call.
C12_ResultPlacesOrRaises ==
    [][last'.op = "result" =>
          /\ board' = board
          /\ IF board[last'.arg[1]][last'.arg[2]] # EMPTY
                THEN last'.raised
                ELSE /\ ~ last'.raised
                     /\ last'.ret = [board EXCEPT ![last'.arg[1]][last'.arg[2]] = player(board)]]_vars

\* C12 witness: called on a board that holds three marks, result has
\* returned a different board, with an O on the target square.
C12_Witness ==
    /\ last.op = "result"
    /\ ~ last.raised
    /\ Marks(board) >= 3
    /\ last.ret[last.arg[1]][last.arg[2]] = O
    /\ last.ret # board

\* C20: on every board reached from initial_state() by successful result
\* calls, the X marks are as many as the O marks or one more, player(board)
\* is X exactly when they are as many; so the marks placed by consecutive
\* calls alternate X, O, X, ..., starting with X.
C20_PlayersAlternate ==
    /\ [](LET count_x == Cardinality({a \in Squares : board[a[1]][a[2]] = X})
              count_o == Cardinality({a \in Squares : board[a[1]][a[2]] = O})
          IN  /\ count_x - count_o \in {0, 1}
              /\ player(board) = X <=> count_x = count_o)
    /\ [][last'.op = "result" /\ ~ last'.raised =>
            last'.ret[last'.arg[1]][last'.arg[2]] =
                IF Marks(board) % 2 = 0 THEN X ELSE O]_vars

\* C20 witness: the caller holds a board with two X and one O, reached by
\* three successful calls, and it is O's turn.
C20_Witness ==
    /\ last.op = "adopt"
    /\ Marks(board) = 3
    /\ player(board) = O

\* The in-bounds cells at row and column distance at most 1 from cell, other
\* than cell itself.
Neighbours(cell) ==
    {c \in Cells : /\ c # cell
                   /\ c[1] - cell[1] \in {0 - 1, 0, 1}
                   /\ c[2] - cell[2] \in {0 - 1, 0, 1}}

\* C13: for every cell and every agent state, get_surrounding_cells(cell)
\* returns exactly the neighbours of cell that are in none of moves_made,
\* safes and mines; cell itself is never in the result.
C13_SurroundingCellsAreUnknownNeighbours ==
    last.op = "get_surrounding_cells" =>
        /\ last.ret = Neighbours(last.arg) \ (moves_made \cup safes \cup mines)
        /\ last.arg \notin last.ret

\* A step of ApiSpec in which add_knowledge is called (lines 226-243 run; the
\* call has returned after the step iff pc' = "idle").
AddKnowledgeCalled ==
    pc = "idle" /\ last'.op = "add_knowledge" /\ moves_made' # moves_made

FreshAgent == moves_made = {} /\ safes = {} /\ mines = {} /\ knowledge = <<>>

\* No sentence was added: the list is no longer than before and each of its
\* sentences is what is left of a sentence that was there before.
NoSentenceAdded ==
    /\ Len(knowledge') <= Len(knowledge)
    /\ \A i \in DOMAIN knowledge' :
          \E j \in DOMAIN knowledge : knowledge'[i].cells \subseteq knowledge[j].cells

\* C14: add_knowledge(cell, 0) returns with cell in moves_made and in safes,
\* with every neighbour of cell that was not in mines before the call in
\* safes, and with no sentence added to knowledge; on a fresh agent it leaves
\* safes = the cell and its neighbours, mines empty and knowledge empty.
C14_ZeroCountMarksNeighboursSafe ==
    [][(AddKnowledgeCalled /\ last'.arg[2] = 0) =>
          \E cell \in {last'.arg[1]} :
             /\ pc' = "idle"
             /\ cell \in moves_made'
             /\ cell \in safes'
             /\ Neighbours(cell) \ mines \subseteq safes'
             /\ NoSentenceAdded
             /\ FreshAgent =>
                   /\ safes' = {cell} \cup Neighbours(cell)
                   /\ mines' = {}
                   /\ knowledge' = <<>>]_vars

\* add_knowledge(cell, 0) has returned for a cell with a neighbour that was
\* marked as a mine before and with at least two other neighbours, now safe.
C14_Witness ==
    /\ pc = "idle"
    /\ last.op = "add_knowledge"
    /\ last.arg[2] = 0
    /\ Neighbours(last.arg[1]) \cap mines # {}
    /\ Cardinality(Neighbours(last.arg[1]) \cap safes) >= 2
    /\ knowledge = <<>>

\* C15: when add_knowledge(cell, count) is called with count > 0 equal to the
\* number of cells that get_surrounding_cells(cell) returns, it returns with
\* every one of those cells in mines and with no sentence added to
\* knowledge; with no sentence stored before, mines gains exactly those cells.
C15_FullCountMarksNeighboursMines ==
    [][AddKnowledgeCalled =>
          \E cell \in {last'.arg[1]}, count \in {last'.arg[2]} :
             \E unknown \in {get_surrounding_cells(mark_safe(Agent, cell), cell)} :
                (count > 0 /\ count = Cardinality(unknown)) =>
                   /\ pc' = "idle"
                   /\ unknown \subseteq mines'
                   /\ NoSentenceAdded
                   /\ knowledge = <<>> =>
                         /\ mines' = mines \cup unknown
                         /\ safes' = safes \cup {cell}
                         /\ knowledge' = <<>>]_vars

\* add_knowledge(cell, 2) has returned for a cell that had exactly two
\* unknown neighbours, both now in mines, and a third neighbour known before.
C15_Witness ==
    /\ pc = "idle"
    /\ last.op = "add_knowledge"
    /\ last.arg[2] = 2
    /\ Cardinality(Neighbours(last.arg[1]) \cap mines) >= 2
    /\ Neighbours(last.arg[1]) \cap (safes \ mines) # {}
    /\ knowledge = <<>>

\* C16: for every Sentence, known_mines() returns exactly its cell-set when
\* count = |cells| and the empty set otherwise, and known_safes() returns
\* exactly its cell-set when count = 0 and the empty set otherwise.
C16_KnownMinesAndSafes ==
    /\ last.op = "known_mines" =>
          last.ret = IF knowledge[1].count = Cardinality(knowledge[1].cells)
                     THEN knowledge[1].cells ELSE {}
    /\ last.op = "known_safes" =>
          last.ret = IF knowledge[1].count = 0 THEN knowledge[1].cells ELSE {}

\* known_mines() has returned both cells of a two-cell sentence with count 2.
C16_Witness ==
    /\ last.op = "known_mines"
    /\ Cardinality(knowledge[1].cells) = 2
    /\ last.ret = knowledge[1].cells

\* C17: mark_mine and mark_safe are idempotent.  A call removes the cell from
\* every sentence that holds it, lowers the count of such a sentence by one
\* for mark_mine and by nothing for mark_safe, and leaves every other
\* sentence as it was; the same call made again at once changes none of
\* moves_made, safes, mines and knowledge.
C17_MarksAreIdempotent ==
    [][\A op \in {"mark_mine", "mark_safe"} :
          last'.op = op =>
             \E cell \in {last'.arg} :
                /\ Len(knowledge') = Len(knowledge)
                /\ \A i \in DOMAIN knowledge :
                      /\ knowledge'[i].cells = knowledge[i].cells \ {cell}
                      /\ knowledge'[i].count =
                            IF op = "mark_mine" /\ cell \in knowledge[i].cells
                            THEN knowledge[i].count - 1 ELSE knowledge[i].count
                /\ (last.op = op /\ last.arg = cell) =>
                      /\ moves_made' = moves_made
                      /\ safes' = safes
                      /\ mines' = mines
                      /\ knowledge' = knowledge]_vars

\* mark_mine(cell) has returned on an agent whose only sentence came from one
\* add_knowledge call next to cell and has lost cell and one unit of count.
C17_Witness ==
    /\ last.op = "mark_mine"
    /\ Len(knowledge) = 1
    /\ knowledge[1].count = 1
    /\ \E m \in moves_made :
          /\ last.arg \in Neighbours(m)
          /\ knowledge[1].cells = Neighbours(m) \ {last.arg}

\* C18: in an iteration of add_knowledge's loop that takes a trivial sentence
\* from the worklist, the cells marked are exactly the cells of that sentence
\* (as mines when count = |cells|, as safe when count = 0), no other cell is
\* marked, and the sentence is not appended to knowledge.
C18_TrivialStagedMarksItsOwnCells ==
    [][(pc = "loop" /\ last'.op = "add_knowledge_loop") =>
          \E sentence1 \in {new_knowledge[Len(new_knowledge)]} :
             Trivial(sentence1) =>
                /\ IF sentence1.count = Cardinality(sentence1.cells)
                   THEN mines' = mines \cup sentence1.cells /\ safes' = safes
                   ELSE safes' = safes \cup sentence1.cells /\ mines' = mines
                /\ Len(knowledge') <= Len(knowledge)]_vars

\* C19: with the agent driven only by add_knowledge(cell, nearby_mines(cell))
\* for cells of one board that hold no mine, every sentence in knowledge is
\* true of the board at every point: the number of the board's mines among
\* its cells equals its count.
C19_KnowledgeIsTrueOfBoard ==
    \A i \in DOMAIN knowledge :
        Cardinality(knowledge[i].cells \cap ms_board) = knowledge[i].count

============================================================================
